---- MODULE Spec2Model ----
(***************************************************************************)
(* CloudFront image optimizer: the viewer-request URI rewriter             *)
(* (lambda-functions/viewer-request/index.mjs) and the origin-response     *)
(* resize handler (lambda-functions/origin-response/index.mjs).            *)
(*                                                                         *)
(* A JavaScript string is a sequence of one-character strings, so that     *)
(* the regular expressions, split and template literals of the handlers    *)
(* are computed character by character.                                    *)
(***************************************************************************)
EXTENDS Integers, Sequences, FiniteSets, TLC

(***************************************************************************)
(* Bounds of the model                                                     *)
(***************************************************************************)
\* longest URI enumerated exhaustively over UriChars
MaxUriLen == 6
\* longest query string enumerated exhaustively over QsChars
MaxQsLen == 3

(***************************************************************************)
(* Strings                                                                 *)
(***************************************************************************)
RECURSIVE Concat(_)
\* the concatenation of a sequence of strings
Concat(ss) == IF ss = <<>> THEN <<>> ELSE Head(ss) \o Concat(Tail(ss))

\* all strings over chars of length 0..n
StringsUpTo(chars, n) == UNION {[1..k -> chars] : k \in 0..n}

\* String.prototype.includes
Includes(s, t) ==
    \E i \in 1..(Len(s) - Len(t) + 1) : SubSeq(s, i, i + Len(t) - 1) = t

\* String.prototype.substring(from) with a 0-based index
Substring(s, from) == SubSeq(s, from + 1, Len(s))

\* the positions of character c in s
Positions(s, c) == {i \in 1..Len(s) : s[i] = c}

Min(S) == CHOOSE m \in S : \A o \in S : m <= o
Max(S) == CHOOSE m \in S : \A o \in S : m >= o

RECURSIVE SplitFrom(_, _, _)
\* the pieces of s from position `from` on, cut at each character sep
SplitFrom(s, sep, from) ==
    LET next == {i \in Positions(s, sep) : i >= from}
    IN  IF next = {} THEN <<SubSeq(s, from, Len(s))>>
        ELSE <<SubSeq(s, from, Min(next) - 1)>> \o SplitFrom(s, sep, Min(next) + 1)

\* String.prototype.split(sep) for a one-character separator
Split(s, sep) == SplitFrom(s, sep, 1)

\* the line terminators, which `.` of a regular expression does not match
LineTerminators == {"\n", "\r"}
\* every character of s is matched by `.`
AllDot(s) == \A i \in 1..Len(s) : s[i] \notin LineTerminators
\* no character of s is c
Without(s, c) == \A i \in 1..Len(s) : s[i] # c

Digits == <<"0", "1", "2", "3", "4", "5", "6", "7", "8", "9">>
DigitChars == {Digits[i] : i \in 1..10}
\* the value of a decimal digit
DigitVal(c) == (CHOOSE i \in 1..10 : Digits[i] = c) - 1
\* s matches \d+
AllDigits(s) == Len(s) > 0 /\ \A i \in 1..Len(s) : s[i] \in DigitChars

(***************************************************************************)
(* new URLSearchParams(querystring): the application/x-www-form-urlencoded *)
(* parser                                                                  *)
(***************************************************************************)
HexDigits ==
    <<"0", "1", "2", "3", "4", "5", "6", "7", "8", "9", "a", "b", "c", "d", "e", "f">>
HexUpper == <<"A", "B", "C", "D", "E", "F">>
IsHex(c) == (\E i \in 1..16 : HexDigits[i] = c) \/ (\E i \in 1..6 : HexUpper[i] = c)
HexVal(c) ==
    IF \E i \in 1..16 : HexDigits[i] = c
    THEN (CHOOSE i \in 1..16 : HexDigits[i] = c) - 1
    ELSE (CHOOSE i \in 1..6 : HexUpper[i] = c) + 9

\* the printable ASCII characters, 0x20 to 0x7E (the double quote, the
\* backslash and the backtick are named by their codes 34, 92 and 96)
Ascii ==
    <<" ", "!", "34", "#", "$", "%", "&", "'", "(", ")", "*", "+", ",", "-", ".", "/",
      "0", "1", "2", "3", "4", "5", "6", "7", "8", "9", ":", ";", "<", "=", ">", "?",
      "@", "A", "B", "C", "D", "E", "F", "G", "H", "I", "J", "K", "L", "M", "N", "O",
      "P", "Q", "R", "S", "T", "U", "V", "W", "X", "Y", "Z", "[", "92", "]", "^", "_",
      "96", "a", "b", "c", "d", "e", "f", "g", "h", "i", "j", "k", "l", "m", "n", "o",
      "p", "q", "r", "s", "t", "u", "v", "w", "x", "y", "z", "{", "|", "}", "~">>
\* the character of a byte; a byte outside printable ASCII is named by its code
Chr(code) == IF code >= 32 /\ code <= 126 THEN Ascii[code - 31] ELSE ToString(code)

RECURSIVE PercentDecode(_)
\* percent-decoding: %XY with two hex digits is the byte 16*X+Y, anything
\* else is kept
PercentDecode(s) ==
    IF s = <<>> THEN <<>>
    ELSE IF s[1] = "%" /\ Len(s) >= 3 /\ IsHex(s[2]) /\ IsHex(s[3])
         THEN <<Chr(16 * HexVal(s[2]) + HexVal(s[3]))>> \o PercentDecode(SubSeq(s, 4, Len(s)))
         ELSE <<s[1]>> \o PercentDecode(Tail(s))

\* `+` stands for a space
PlusToSpace(s) == [i \in 1..Len(s) |-> IF s[i] = "+" THEN " " ELSE s[i]]

\* one name=value piece of the query: cut at the first `=`, then decoded
ParsePair(piece) ==
    LET eqs   == Positions(piece, "=")
        name  == IF eqs = {} THEN piece ELSE SubSeq(piece, 1, Min(eqs) - 1)
        value == IF eqs = {} THEN <<>> ELSE SubSeq(piece, Min(eqs) + 1, Len(piece))
    IN  [name |-> PercentDecode(PlusToSpace(name)),
         value |-> PercentDecode(PlusToSpace(value))]

\* new URLSearchParams(init): a leading `?` is dropped, the rest is cut at
\* each `&`, empty pieces are skipped
URLSearchParams(init) ==
    LET query  == IF Len(init) > 0 /\ init[1] = "?" THEN Tail(init) ELSE init
        pieces == SelectSeq(Split(query, "&"), LAMBDA p : p # <<>>)
    IN  [i \in 1..Len(pieces) |-> ParsePair(pieces[i])]

\* URLSearchParams.prototype.has
ParamsHas(params, name) == \E i \in 1..Len(params) : params[i].name = name

\* URLSearchParams.prototype.get: the first value of that name, or null
ParamsGet(params, name) ==
    LET hits == {i \in 1..Len(params) : params[i].name = name}
    IN  IF hits = {} THEN [isNull |-> TRUE, value |-> <<>>]
        ELSE [isNull |-> FALSE, value |-> params[Min(hits)].value]

(***************************************************************************)
(* Viewer-request handler (the URI Rewriter)                               *)
(***************************************************************************)
\* the literals of the handler
D == <<"d">>
X == "x"
WEBP == <<"w", "e", "b", "p">>
RESIZE == <<"r", "e", "s", "i", "z", "e">>
ACCEPT == "accept"

\* every way /\/(.+)\/([^/]+)\.([^.]+)$/ matches uri: <<s, q, l>> are the
\* positions of the two slashes and of the dot
UriMatches(uri) ==
    LET n == Len(uri)
    IN  {m \in Positions(uri, "/") \X Positions(uri, "/") \X Positions(uri, ".") :
            /\ m[1] < m[2] /\ m[2] < m[3] /\ m[3] < n
            /\ m[2] - m[1] >= 2 /\ AllDot(SubSeq(uri, m[1] + 1, m[2] - 1))
            /\ m[3] - m[2] >= 2 /\ Without(SubSeq(uri, m[2] + 1, m[3] - 1), "/")
            /\ Without(SubSeq(uri, m[3] + 1, n), ".")}

\* request.uri.match(/\/(.+)\/([^/]+)\.([^.]+)$/): the leftmost match, with
\* the greedy (.+) as long as possible, then ([^/]+) as long as possible
UriMatch(uri) ==
    LET ms == UriMatches(uri)
    IN  IF ms = {} THEN [isNull |-> TRUE, path |-> <<>>, filename |-> <<>>, extension |-> <<>>]
        ELSE LET s == Min({m[1] : m \in ms})
                 q == Max({m[2] : m \in {k \in ms : k[1] = s}})
                 l == Max({m[3] : m \in {k \in ms : k[1] = s /\ k[2] = q}})
             IN  [isNull    |-> FALSE,
                  path      |-> SubSeq(uri, s + 1, q - 1),
                  filename  |-> SubSeq(uri, q + 1, l - 1),
                  extension |-> SubSeq(uri, l + 1, Len(uri))]

\* a value that may be undefined, or a TypeError raised while reaching it
Undefined == [threw |-> FALSE, undef |-> TRUE, value |-> <<>>]
TypeError == [threw |-> TRUE, undef |-> TRUE, value |-> <<>>]
Defined(v) == [threw |-> FALSE, undef |-> FALSE, value |-> v]

\* request.headers['accept'][0].value without the optional chaining
AcceptHeaderUnchained(headers) ==
    IF ACCEPT \notin DOMAIN headers THEN TypeError
    ELSE IF Len(headers[ACCEPT]) = 0 THEN TypeError
    ELSE Defined(headers[ACCEPT][1].value)

\* request.headers['accept']?.[0]?.value
AcceptHeader(headers) ==
    IF ACCEPT \notin DOMAIN headers THEN Undefined
    ELSE IF Len(headers[ACCEPT]) = 0 THEN Undefined
    ELSE Defined(headers[ACCEPT][1].value)

\* the extension whatever the client accepts
NegotiatedFormatNever(acceptHeader, extension) == extension

\* acceptHeader?.includes('webp') ? 'webp' : extension
NegotiatedFormat(acceptHeader, extension) ==
    IF ~acceptHeader.undef /\ Includes(acceptHeader.value, WEBP) THEN WEBP ELSE extension

\* the template with the two dimension parts exchanged
BuildUriSwapped(path, dimension, format, filename, extension) ==
    <<"/">> \o RESIZE \o <<"/">> \o path \o <<"/">> \o dimension[2] \o <<X>>
        \o dimension[1] \o <<"/">> \o format \o <<"/">> \o filename \o <<".">> \o extension

\* `/resize/${path}/${dimension[0]}x${dimension[1]}/${format}/${filename}.${extension}`
BuildUri(path, dimension, format, filename, extension) ==
    <<"/">> \o RESIZE \o <<"/">> \o path \o <<"/">> \o dimension[1] \o <<X>>
        \o dimension[2] \o <<"/">> \o format \o <<"/">> \o filename \o <<".">> \o extension

\* a check of the dimension parameter that never returns early
HasDimensionAlways(params) == TRUE

\* params.has('d')
HasDimension(params) == ParamsHas(params, D)

\* an assignment that also clears the query string
SetUriDropQuery(request, uri) == [request EXCEPT !.uri = uri, !.querystring = <<>>]

\* request.uri = ...
SetUri(request, uri) == [request EXCEPT !.uri = uri]

Returned(request) == [threw |-> FALSE, request |-> request]
Threw(request) == [threw |-> TRUE, request |-> request]

\* handler(event) of the viewer-request function: what it returns for the
\* request of the event, or that it raised
ViewerRequestHandler(request) ==
    LET params   == URLSearchParams(request.querystring)
        uriMatch == UriMatch(request.uri)
        d        == ParamsGet(params, D)
        dimension    == Split(d.value, X)
        acceptHeader == AcceptHeader(request.headers)
        format       == NegotiatedFormat(acceptHeader, uriMatch.extension)
    IN  IF ~HasDimension(params) THEN Returned(request)
        ELSE IF uriMatch.isNull THEN Returned(request)
        ELSE IF d.isNull THEN Threw(request)
        ELSE IF Len(dimension) # 2 THEN Returned(request)
        ELSE IF acceptHeader.threw THEN Threw(request)
        ELSE Returned(SetUri(request,
                 BuildUri(uriMatch.path, dimension, format,
                          uriMatch.filename, uriMatch.extension)))

(***************************************************************************)
(* Origin-response handler (the Resize Orchestrator)                       *)
(***************************************************************************)
MAX_DIMENSION == 4000
CACHE_CONTROL == <<"m", "a", "x", "-", "a", "g", "e", "=", "8", "6", "4", "0", "0">>
ORIGIN == <<"o", "r", "i", "g", "i", "n">>
JPG == <<"j", "p", "g">>
JPEG == <<"j", "p", "e", "g">>
IMAGE == <<"i", "m", "a", "g", "e">>

\* a pattern whose subpath may be empty
KeyMatchesEmptySubpath(key) ==
    LET n == Len(key)
        slashes == Positions(key, "/")
    IN  IF ~(n >= 7 /\ SubSeq(key, 1, 7) = RESIZE \o <<"/">>) THEN {}
        ELSE {m \in slashes \X Positions(key, X) \X slashes \X slashes :
                /\ m[1] >= 7 /\ AllDot(SubSeq(key, 8, m[1] - 1))
                /\ m[1] < m[2] /\ AllDigits(SubSeq(key, m[1] + 1, m[2] - 1))
                /\ m[2] < m[3] /\ AllDigits(SubSeq(key, m[2] + 1, m[3] - 1))
                /\ m[3] < m[4] /\ m[4] - m[3] >= 2
                /\ Without(SubSeq(key, m[3] + 1, m[4] - 1), "/")
                /\ m[4] < n /\ AllDot(SubSeq(key, m[4] + 1, n))}

\* every way KEY_PATTERN = /^resize\/(.+)\/(\d+)x(\d+)\/([^/]+)\/(.+)$/
\* matches key: <<a, b, c, e>> are the positions of the slash before the
\* width, of the x, of the slash after the height and of the slash after the
\* format
KeyMatches(key) ==
    LET n == Len(key)
        slashes == Positions(key, "/")
    IN  IF ~(n >= 7 /\ SubSeq(key, 1, 7) = RESIZE \o <<"/">>) THEN {}
        ELSE {m \in slashes \X Positions(key, X) \X slashes \X slashes :
                /\ m[1] >= 9 /\ AllDot(SubSeq(key, 8, m[1] - 1))
                /\ m[1] < m[2] /\ AllDigits(SubSeq(key, m[1] + 1, m[2] - 1))
                /\ m[2] < m[3] /\ AllDigits(SubSeq(key, m[2] + 1, m[3] - 1))
                /\ m[3] < m[4] /\ m[4] - m[3] >= 2
                /\ Without(SubSeq(key, m[3] + 1, m[4] - 1), "/")
                /\ m[4] < n /\ AllDot(SubSeq(key, m[4] + 1, n))}

\* a match that takes the shortest subpath instead of the longest
KeyMatchLazy(key) ==
    LET ms == KeyMatches(key)
    IN  IF ms = {}
        THEN [isNull |-> TRUE, subpath |-> <<>>, widthStr |-> <<>>, heightStr |-> <<>>,
              format |-> <<>>, filename |-> <<>>]
        ELSE LET a == Min({m[1] : m \in ms})
                 m == CHOOSE k \in ms : k[1] = a
             IN  [isNull    |-> FALSE,
                  subpath   |-> SubSeq(key, 8, m[1] - 1),
                  widthStr  |-> SubSeq(key, m[1] + 1, m[2] - 1),
                  heightStr |-> SubSeq(key, m[2] + 1, m[3] - 1),
                  format    |-> SubSeq(key, m[3] + 1, m[4] - 1),
                  filename  |-> SubSeq(key, m[4] + 1, Len(key))]

\* key.match(KEY_PATTERN): the greedy (.+) of the subpath as long as possible;
\* the digits and the format are then fixed by their delimiters
KeyMatch(key) ==
    LET ms == KeyMatches(key)
    IN  IF ms = {}
        THEN [isNull |-> TRUE, subpath |-> <<>>, widthStr |-> <<>>, heightStr |-> <<>>,
              format |-> <<>>, filename |-> <<>>]
        ELSE LET a == Max({m[1] : m \in ms})
                 m == CHOOSE k \in ms : k[1] = a
             IN  [isNull    |-> FALSE,
                  subpath   |-> SubSeq(key, 8, m[1] - 1),
                  widthStr  |-> SubSeq(key, m[1] + 1, m[2] - 1),
                  heightStr |-> SubSeq(key, m[2] + 1, m[3] - 1),
                  format    |-> SubSeq(key, m[3] + 1, m[4] - 1),
                  filename  |-> SubSeq(key, m[4] + 1, Len(key))]

RECURSIVE ParseInt(_)
\* parseInt(str, 10) of a string of decimal digits
ParseInt(str) ==
    IF str = <<>> THEN 0
    ELSE 10 * ParseInt(SubSeq(str, 1, Len(str) - 1)) + DigitVal(str[Len(str)])

\* a check that forgets the height
InvalidDimensionsWidthOnly(width, height) == width <= 0 \/ width > MAX_DIMENSION

\* a check of the upper bound only
InvalidDimensionsUpperOnly(width, height) == width > MAX_DIMENSION \/ height > MAX_DIMENSION

\* width <= 0 || height <= 0 || width > MAX_DIMENSION || height > MAX_DIMENSION
InvalidDimensions(width, height) ==
    width <= 0 \/ height <= 0 \/ width > MAX_DIMENSION \/ height > MAX_DIMENSION

\* a mapping that leaves every token as it is
SharpFormatSame(format) == format

\* format === 'jpg' ? 'jpeg' : format
SharpFormat(format) == IF format = JPG THEN JPEG ELSE format

\* an original looked up by the last segment of the filename
OriginKeyBasename(subpath, filename) ==
    ORIGIN \o <<"/">> \o subpath \o <<"/">>
        \o SubSeq(filename, Max(Positions(filename, "/") \cup {0}) + 1, Len(filename))

\* an original looked up next to its variants
OriginKeyUnderResize(subpath, filename) == RESIZE \o <<"/">> \o subpath \o <<"/">> \o filename

\* `origin/${subpath}/${filename}`
OriginKey(subpath, filename) == ORIGIN \o <<"/">> \o subpath \o <<"/">> \o filename

\* `image/${sharpFormat}`
ContentType(sharpFormat) == IMAGE \o <<"/">> \o sharpFormat

\* a transform that resizes and does not convert
ResizedUnconverted(imageBuffer, width, height, sharpFormat) ==
    [source |-> imageBuffer, width |-> width, height |-> height, format |-> <<>>]

\* what sharp(imageBuffer).rotate().resize(width, height, {fit: inside,
\* withoutEnlargement: true}).toFormat(sharpFormat).toBuffer() resolves to
Resized(imageBuffer, width, height, sharpFormat) ==
    [source |-> imageBuffer, width |-> width, height |-> height, format |-> sharpFormat]

\* the bytes stored under an original key
BodyOf(originKey) == [original |-> originKey]

\* a command that leaves the content type to the bucket
PutObjectCommandUntyped(key, body, contentType) ==
    [Key |-> key, Body |-> body,
     ContentType |-> <<"b", "i", "n", "a", "r", "y", "/", "o", "c", "t", "e", "t", "-", "s", "t", "r", "e", "a", "m">>,
     CacheControl |-> CACHE_CONTROL]

\* a command without CacheControl
PutObjectCommandNoCache(key, body, contentType) ==
    [Key |-> key, Body |-> body, ContentType |-> contentType, CacheControl |-> <<>>]

\* new PutObjectCommand({Bucket, Key, Body, ContentType, CacheControl})
PutObjectCommand(key, body, contentType) ==
    [Key |-> key, Body |-> body, ContentType |-> contentType, CacheControl |-> CACHE_CONTROL]

\* headers that keep nothing of the response
WithContentTypeOnly(headers, contentType) ==
    [h \in {"content-type"} |-> <<[key |-> "Content-Type", value |-> contentType]>>]

\* the headers of the response with content-type replaced
WithContentType(headers, contentType) ==
    [h \in DOMAIN headers \cup {"content-type"} |->
        IF h = "content-type" THEN <<[key |-> "Content-Type", value |-> contentType]>>
        ELSE headers[h]]

\* the response synthesized for a resized image; the status, the number 200
\* in the source, is written as the statuses of the origin are
ResizedResponse(response, resizedBuffer, contentType) ==
    [status            |-> "200",
     statusDescription |-> "OK",
     body              |-> [base64 |-> resizedBuffer],
     bodyEncoding      |-> "base64",
     headers           |-> WithContentType(response.headers, contentType)]

\* a handler that creates a client in every invocation
InitS3ClientEveryTime(client) == client + 1

\* if (!s3Client) { s3Client = new S3Client({ region: REGION }); }
InitS3Client(client) == IF client = 0 THEN client + 1 ELSE client

\* a status check that regenerates on 404 only
IsNotFoundOnly404(status) == status = "404"

\* the negation of response.status !== '404' && response.status !== '403'
IsNotFound(status) == status = "404" \/ status = "403"

\* the handler up to the try block: whether it returns the response as it is
\* and, if it does not, the key, the dimensions, the format and the key of
\* the original it goes on with
Validated(request, status) ==
    LET key      == Substring(request.uri, 1)
        keyMatch == KeyMatch(key)
        width    == ParseInt(keyMatch.widthStr)
        height   == ParseInt(keyMatch.heightStr)
    IN  [pass        |-> \/ ~IsNotFound(status)
                         \/ keyMatch.isNull
                         \/ InvalidDimensions(width, height),
         key         |-> key,
         width       |-> width,
         height      |-> height,
         sharpFormat |-> SharpFormat(keyMatch.format),
         originKey   |-> OriginKey(keyMatch.subpath, keyMatch.filename)]

\* a catch block that answers with an error page
CaughtServerError(response) ==
    [status |-> "500", statusDescription |-> "Internal Server Error",
     headers |-> response.headers]

\* catch (error) { return response; }
Caught(response) == response

\* a try block that uploads before it resizes
TryBlockUploadFirst(response, plan, getOk, body, sharpOk) ==
    LET resizedBuffer == Resized(body, plan.width, plan.height, plan.sharpFormat)
        contentType   == ContentType(plan.sharpFormat)
        put           == PutObjectCommand(plan.key, resizedBuffer, contentType)
    IN  IF ~getOk THEN [returned |-> Caught(response), puts |-> <<>>]
        ELSE IF ~sharpOk THEN [returned |-> Caught(response), puts |-> <<put>>]
        ELSE [returned |-> ResizedResponse(response, resizedBuffer, contentType),
              puts     |-> <<put>>]

\* the try block once GetObject has answered: what the handler returns and the
\* PutObject commands it sends. getOk: GetObject and transformToByteArray gave
\* the bytes `body`; sharpOk: sharp resized them
TryBlock(response, plan, getOk, body, sharpOk) ==
    LET resizedBuffer == Resized(body, plan.width, plan.height, plan.sharpFormat)
        contentType   == ContentType(plan.sharpFormat)
    IN  IF ~getOk \/ ~sharpOk THEN [returned |-> Caught(response), puts |-> <<>>]
        ELSE [returned |-> ResizedResponse(response, resizedBuffer, contentType),
              puts     |-> <<PutObjectCommand(plan.key, resizedBuffer, contentType)>>]

\* a handler that awaits the PutObject it has sent
PcAwaitingSend(puts) == IF puts = <<>> THEN "done" ELSE "put"

\* where the handler is once the try block has sent the commands puts:
\* s3Client.send(...) is not awaited, the return follows at once
PcAfterSend(puts) == "done"

\* a rejection handler that sends the command again
OnPutErrorRetry(command) == <<command>>

\* .catch(err => { console.error('Failed to upload resized image:', err); }):
\* the commands sent when the PutObject is rejected
OnPutError(command) == <<>>

(***************************************************************************)
(* The requests of the model                                               *)
(***************************************************************************)
UriChars == {"/", ".", "a"}
QsChars == {"d", "=", "x", "1", "&"}

\* the URIs of the documented scenarios and of the handlers' tests, and URIs
\* with a dot outside the trailing segment or a dimension-like directory
UriSamples ==
    {<<"/", "b", "l", "o", "g", "/", "p", "o", "s", "t", "s", "/", "c", "o", "v", "e", "r", ".", "j", "p", "g">>,
     <<"/", "i", "m", "a", "g", "e", "/", "t", "e", "s", "t", ".", "p", "n", "g">>,
     <<"/", "t", "e", "s", "t", ".", "p", "n", "g">>,
     <<"/", "a", "/", "b">>,
     <<"/", "x", "/", "a", ".", "b", "/", "c">>,
     <<"/", "a", "/", "b", ".", "w", "e", "b", "p">>,
     <<"/", "a", "/", "b", ".", "j", "p", "g">>,
     <<"/", "a", "/", "s", "/", "b", ".", "j", "p", "g">>,
     <<"/", "a", "/", "1", "0", "x", "1", "0", "/", "p", "n", "g", "/", "c", "/", "b", ".", "j", "p", "g">>}

\* query strings: dimensions with leading zeros, empty parts, out of range,
\* with a slash, percent-encoded, repeated, after another parameter
QsSamples ==
    {<<"d", "=", "3", "0", "0", "x", "3", "0", "0">>,
     <<"d", "=", "0", "3", "0", "0", "x", "0", "3", "0", "0">>,
     <<"d", "=", "2", "0", "0", "x", "2", "0", "0">>,
     <<"d", "=", "i", "n", "v", "a", "l", "i", "d">>,
     <<"d", "=", "3", "0", "0", "x">>,
     <<"d", "=", "x", "3", "0", "0">>,
     <<"d", "=", "1", "x", "1">>,
     <<"d", "=", "4", "0", "0", "0", "x", "4", "0", "0", "0">>,
     <<"d", "=", "4", "0", "0", "1", "x", "1">>,
     <<"d", "=", "0", "x", "1">>,
     <<"d", "=", "s", "/", "1", "x", "1">>,
     <<"%", "6", "4", "=", "1", "x", "1">>,
     <<"a", "=", "1", "&", "d", "=", "1", "x", "1">>,
     <<"d", "=", "1", "x", "1", "&", "d", "=", "4", "x", "4">>,
     <<"?", "d", "=", "1", "x", "1">>,
     <<"d", "=", "1", "+", "x", "1">>,
     <<"d", "=", "1", "x", "1", "x", "1">>,
     <<"d", "=", "%", "3", "1", "x", "1">>}

\* every URI a viewer request can carry starts with a slash
Uris == {<<"/">> \o u : u \in StringsUpTo(UriChars, MaxUriLen - 1)} \cup UriSamples
Qss == StringsUpTo(QsChars, MaxQsLen) \cup QsSamples

\* the URIs tried with every query string, and the query strings tried with
\* every URI
UriBase == {<<"/", "a", "/", "a", ".", "a">>, <<"/", "t", "e", "s", "t", ".", "p", "n", "g">>}
QsBase == {<<>>, <<"d", "=", "1", "x", "1">>, <<"d", "=", "a">>, <<"d", "=", "1", "0", "x", "1">>}

HOST == <<[key |-> "Host", value |-> <<"e", ".", "o", "r", "g">>]>>
\* header maps without an accept entry, with an empty one, with one whose
\* first value does or does not contain webp
HeaderMaps ==
    {[host |-> HOST],
     [host |-> HOST, accept |-> <<>>],
     [host |-> HOST, accept |-> <<[key |-> "Accept", value |-> <<"i", "m", "a", "g", "e", "/", "w", "e", "b", "p", ",", "*", "/", "*">>]>>],
     [host |-> HOST, accept |-> <<[key |-> "Accept", value |-> <<"t", "e", "x", "t", "/", "h", "t", "m", "l", ",", "*", "/", "*">>]>>],
     [host |-> HOST, accept |-> <<[key |-> "Accept", value |-> <<"t", "e", "x", "t", "/", "h", "t", "m", "l">>],
                                  [key |-> "Accept", value |-> <<"i", "m", "a", "g", "e", "/", "w", "e", "b", "p">>]>>]}

Request(uri, querystring, headers) ==
    [uri |-> uri, querystring |-> querystring, headers |-> headers]

\* URIs a client asks for directly, without a d parameter, so that they reach
\* the origin as they are: derived keys in and out of bounds, keys that are
\* not derived keys, keys with more than one dimension segment
DerivedUriSamples ==
    {<<"/", "r", "e", "s", "i", "z", "e", "/", "b", "l", "o", "g", "/", "3", "0", "0", "x", "3", "0", "0", "/", "w", "e", "b", "p", "/", "c", "o", "v", "e", "r", ".", "j", "p", "g">>,
     <<"/", "r", "e", "s", "i", "z", "e", "/", "b", "l", "o", "g", "/", "5", "0", "0", "0", "x", "5", "0", "0", "0", "/", "w", "e", "b", "p", "/", "c", "o", "v", "e", "r", ".", "j", "p", "g">>,
     <<"/", "r", "e", "s", "i", "z", "e", "/", "a", "/", "0", "x", "5", "/", "w", "e", "b", "p", "/", "b", ".", "j", "p", "g">>,
     <<"/", "r", "e", "s", "i", "z", "e", "/", "a", "/", "5", "x", "0", "/", "w", "e", "b", "p", "/", "b", ".", "j", "p", "g">>,
     <<"/", "r", "e", "s", "i", "z", "e", "/", "a", "/", "4", "0", "0", "1", "x", "1", "/", "p", "n", "g", "/", "b", ".", "j", "p", "g">>,
     <<"/", "r", "e", "s", "i", "z", "e", "/", "a", "/", "1", "x", "4", "0", "0", "1", "/", "p", "n", "g", "/", "b", ".", "j", "p", "g">>,
     <<"/", "r", "e", "s", "i", "z", "e", "/", "a", "/", "9", "9", "9", "9", "9", "9", "x", "1", "/", "p", "n", "g", "/", "b", ".", "j", "p", "g">>,
     <<"/", "r", "e", "s", "i", "z", "e", "/", "a", "/", "4", "0", "0", "0", "x", "4", "0", "0", "0", "/", "p", "n", "g", "/", "b", ".", "j", "p", "g">>,
     <<"/", "r", "e", "s", "i", "z", "e", "/", "a", "/", "0", "0", "0", "1", "x", "1", "/", "p", "n", "g", "/", "b", ".", "j", "p", "g">>,
     <<"/", "r", "e", "s", "i", "z", "e", "/", "a", "/", "-", "1", "x", "5", "/", "w", "e", "b", "p", "/", "b", ".", "j", "p", "g">>,
     <<"/", "r", "e", "s", "i", "z", "e", "/", "a", "/", "a", "x", "b", "/", "w", "e", "b", "p", "/", "b", ".", "j", "p", "g">>,
     <<"/", "r", "e", "s", "i", "z", "e", "/", "1", "x", "5", "/", "w", "e", "b", "p", "/", "b", ".", "j", "p", "g">>,
     <<"/", "r", "e", "s", "i", "z", "e", "/", "a", "/", "1", "x", "5", "/", "w", "e", "b", "p">>,
     <<"/", "o", "r", "i", "g", "i", "n", "/", "a", "/", "1", "x", "1", "/", "w", "e", "b", "p", "/", "b", ".", "j", "p", "g">>,
     <<"/", "t", "h", "u", "m", "b", "s", "/", "a", "/", "1", "x", "1", "/", "w", "e", "b", "p", "/", "b", ".", "j", "p", "g">>,
     <<"/", "r", "e", "s", "i", "z", "e", "/", "a", "/", "1", "x", "1", "/", "j", "p", "g", "/", "b", ".", "j", "p", "g">>,
     <<"/", "r", "e", "s", "i", "z", "e", "/", "a", "/", "1", "0", "x", "1", "0", "/", "w", "e", "b", "p", "/", "2", "0", "x", "2", "0", "/", "p", "n", "g", "/", "c", ".", "j", "p", "g">>,
     <<"/", "r", "e", "s", "i", "z", "e", "/", "a", "/", "1", "x", "1", "/", "w", "e", "b", "p", "/", "5", "0", "0", "0", "x", "5", "0", "0", "0", "/", "p", "n", "g", "/", "c", ".", "j", "p", "g">>,
     <<"/", "r", "e", "s", "i", "z", "e", "/", "a", "/", "1", "0", "x", "1", "0", "/", "w", "e", "b", "p", "/", "2", "0", "x", "2", "0", "/", "p", "n", "g", "/", "3", "0", "x", "3", "0", "/", "/", "q", "/", "c", ".", "j", "p", "g">>}

\* the URIs of the documented scenarios, tried with the sample query strings
ScenarioUris == {<<"/", "b", "l", "o", "g", "/", "p", "o", "s", "t", "s", "/", "c", "o", "v", "e", "r", ".", "j", "p", "g">>, <<"/", "i", "m", "a", "g", "e", "/", "t", "e", "s", "t", ".", "p", "n", "g">>}

Requests ==
    {Request(u, q, h) : u \in Uris, q \in QsBase, h \in HeaderMaps}
        \cup {Request(u, q, h) : u \in UriBase, q \in Qss, h \in HeaderMaps}
        \cup {Request(u, q, h) : u \in ScenarioUris, q \in QsSamples, h \in HeaderMaps}
        \cup {Request(u, <<>>, h) : u \in DerivedUriSamples, h \in HeaderMaps}

\* the statuses the origin answers with
Statuses == {"200", "404", "403", "500"}
ResponseHeaders ==
    [etag |-> <<[key |-> "ETag", value |-> <<"t">>]>>]
        @@ ("content-type" :> <<[key |-> "Content-Type", value |-> <<"a", "p", "p", "l", "i", "c", "a", "t", "i", "o", "n", "/", "x", "m", "l">>]>>)

(***************************************************************************)
(* The state machine: one viewer request through the distribution          *)
(***************************************************************************)
VARIABLES
    event,      \* the request of the viewer-request event, as it arrived
    pc,         \* where the request is: viewer-request, origin, origin-response, done, failed
    viewerOut,  \* <<what the viewer-request handler returned>>, <<>> before
    response,   \* <<the response of the origin>>, <<>> before
    s3Client,   \* the S3 client of the worker: 0 before one is created, then the
                \* number of the client created last
    reads,      \* the keys of the GetObject commands sent
    writes,     \* the PutObject commands sent
    originOut,  \* <<what the origin-response handler returned>>, <<>> before
    previous,   \* <<the viewer request handled before this one and what was returned>>
    attempt,    \* <<how GetObject and sharp went>>, <<>> when the handler did not get that far
    inv,        \* the invocations of the origin-response function running side by side
    store       \* the objects of the bucket, by key

vars == <<event, pc, viewerOut, response, s3Client, reads, writes, originOut, previous,
          attempt, inv, store>>

\* how the try block can go: GetObject fails; GetObject answers and sharp
\* fails; both succeed
Outcomes ==
    {[getOk |-> FALSE, sharpOk |-> FALSE],
     [getOk |-> TRUE, sharpOk |-> FALSE],
     [getOk |-> TRUE, sharpOk |-> TRUE]}

\* the state when a request out of `requests` arrives at a fresh worker
InitWith(requests) ==
    /\ event \in requests
    /\ pc = "viewer-request"
    /\ viewerOut = <<>>
    /\ response = <<>>
    /\ s3Client = 0
    /\ reads = <<>>
    /\ writes = <<>>
    /\ originOut = <<>>
    /\ previous = <<>>
    /\ attempt = <<>>
    /\ inv = <<>>
    /\ store = <<>>

\* lengths of the buffer sharp resolves to: a small image, the largest whose
\* base64 text is 1 MiB, and one byte more
SampleLengths == {1024, 786432, 786433}

\* the lengths toBuffer() can resolve to for a box of width x height: sharp
\* is not part of the repository, its output is taken to need at most four
\* bytes a pixel and a header
SharpLengths(width, height) == {n \in SampleLengths : n <= 4 * width * height + 1024}

\* how the try block can go, with the length of the resized buffer
SizedOutcomes(width, height) ==
    {[getOk |-> o.getOk, sharpOk |-> o.sharpOk, length |-> n] :
        o \in Outcomes, n \in SampleLengths \cup {0}}
    \cap {o \in [getOk : BOOLEAN, sharpOk : BOOLEAN, length : SampleLengths \cup {0}] :
            IF o.sharpOk THEN o.length \in SharpLengths(width, height) ELSE o.length = 0}

\* the length of resizedBuffer.toString('base64') for a buffer of n bytes
Base64Length(n) == 4 * ((n + 2) \div 3)

Init == InitWith(Requests)

\* the viewer-request function runs on the request
ViewerRequest ==
    /\ pc = "viewer-request"
    /\ viewerOut' = <<ViewerRequestHandler(event)>>
    /\ pc' = IF viewerOut'[1].threw THEN "failed" ELSE "origin"
    /\ UNCHANGED <<event, response, s3Client, reads, writes, originOut, previous, attempt, inv, store>>

\* the distribution forwards the returned request to the origin, which answers
OriginLookup ==
    /\ pc = "origin"
    /\ \E status \in Statuses :
          response' = <<[status |-> status, statusDescription |-> "", headers |-> ResponseHeaders]>>
    /\ pc' = "origin-response"
    /\ UNCHANGED <<event, viewerOut, s3Client, reads, writes, originOut, previous, attempt, inv, store>>

\* handler(event) of the origin-response function, from the event to the
\* returned response
OriginResponse ==
    /\ pc = "origin-response"
    /\ pc' = "done"
    /\ s3Client' = InitS3Client(s3Client)
    /\ LET resp == response[1]
           plan == Validated(viewerOut[1].request, resp.status)
       IN  IF plan.pass
           THEN originOut' = <<resp>> /\ UNCHANGED <<reads, writes, attempt>>
           ELSE \E outcome \in SizedOutcomes(plan.width, plan.height) :
                  LET try == TryBlock(resp, plan, outcome.getOk, BodyOf(plan.originKey),
                                      outcome.sharpOk)
                  IN  /\ reads' = Append(reads, plan.originKey)
                      /\ writes' = writes \o try.puts
                      /\ originOut' = <<try.returned>>
                      /\ attempt' = <<outcome>>
    /\ UNCHANGED <<event, viewerOut, response, previous, inv, store>>

Next == ViewerRequest \/ OriginLookup \/ OriginResponse

Spec == Init /\ [][Next]_vars

(***************************************************************************)
(* Two viewer requests, one after the other: the handler keeps no state,   *)
(* so the second is handled as the first was                               *)
(***************************************************************************)
PairRequests ==
    {Request(u, q, h) :
        u \in {<<"/", "a", "/", "b", ".", "j", "p", "g">>, <<"/", "a", "/", "s", "/", "b", ".", "j", "p", "g">>},
        q \in {<<"d", "=", "1", "x", "1">>, <<"d", "=", "0", "1", "x", "0", "1">>, <<"d", "=", "s", "/", "1", "x", "1">>, <<"d", "=", "3", "0", "0", "x", "3", "0", "0">>, <<"d", "=", "0", "3", "0", "0", "x", "0", "3", "0", "0">>},
        h \in {m \in HeaderMaps : ACCEPT \notin DOMAIN m \/ Len(m[ACCEPT]) = 1}}

InitPair == InitWith(PairRequests)

\* the next viewer request arrives once the handler has returned
NextViewerRequest ==
    /\ pc = "origin"
    /\ previous' = <<[event |-> event, out |-> viewerOut[1]]>>
    /\ event' \in PairRequests
    /\ viewerOut' = <<>>
    /\ pc' = "viewer-request"
    /\ UNCHANGED <<response, s3Client, reads, writes, originOut, attempt, inv, store>>

NextPair == ViewerRequest \/ NextViewerRequest

SpecPair == InitPair /\ [][NextPair]_vars

(***************************************************************************)
(* Invocations of the origin-response function side by side on one bucket: *)
(* each handler runs up to its first await, goes on when GetObject has     *)
(* answered, and returns while its PutObject is still on its way           *)
(***************************************************************************)
NumInvocations == 2

\* the viewer requests behind the invocations: one original at several
\* sizes, in and out of bounds, an original whose directory looks like a
\* derived key, an original that does not exist, and a path under origin/
ConcRequests ==
    {Request(<<"/", "a", "/", "b", ".", "j", "p", "g">>, <<"d", "=", "1", "x", "1">>, [host |-> HOST]),
     Request(<<"/", "a", "/", "b", ".", "j", "p", "g">>, <<"d", "=", "0", "x", "5">>, [host |-> HOST]),
     Request(<<"/", "a", "/", "b", ".", "j", "p", "g">>, <<"d", "=", "4", "0", "0", "1", "x", "1">>, [host |-> HOST]),
     Request(<<"/", "a", "/", "5", "0", "0", "0", "x", "5", "0", "0", "0", "/", "p", "n", "g", "/", "b", ".", "j", "p", "g">>, <<"d", "=", "1", "x", "1">>, [host |-> HOST]),
     Request(<<"/", "c", "/", "b", ".", "j", "p", "g">>, <<"d", "=", "1", "x", "1">>, [host |-> HOST]),
     Request(<<"/", "o", "r", "i", "g", "i", "n", "/", "a", "/", "b", ".", "j", "p", "g">>, <<>>, [host |-> HOST])}

\* event.Records[0].cf of an invocation: the request as the viewer-request
\* function returned it and the response of the origin
CfEvent(viewerRequest, status) ==
    [request  |-> ViewerRequestHandler(viewerRequest).request,
     response |-> [status |-> status, statusDescription |-> "", headers |-> ResponseHeaders]]

\* every request answered with 404, the first one also with 403 and 200
ConcEvents ==
    {CfEvent(r, "404") : r \in ConcRequests}
        \cup {CfEvent(Request(<<"/", "a", "/", "b", ".", "j", "p", "g">>, <<"d", "=", "1", "x", "1">>, [host |-> HOST]), status) :
                status \in {"403", "200"}}

\* an object of the bucket
S3Object(body, contentType, cacheControl) ==
    [Body |-> body, ContentType |-> contentType, CacheControl |-> cacheControl]

\* the originals uploaded under origin/
Originals ==
    (<<"o", "r", "i", "g", "i", "n", "/", "a", "/", "b", ".", "j", "p", "g">> :>
        S3Object(BodyOf(<<"o", "r", "i", "g", "i", "n", "/", "a", "/", "b", ".", "j", "p", "g">>), ContentType(JPEG), <<>>))
    @@ (<<"o", "r", "i", "g", "i", "n", "/", "a", "/", "5", "0", "0", "0", "x", "5", "0", "0", "0", "/", "p", "n", "g", "/", "b", ".", "j", "p", "g">> :>
        S3Object(BodyOf(<<"o", "r", "i", "g", "i", "n", "/", "a", "/", "5", "0", "0", "0", "x", "5", "0", "0", "0", "/", "p", "n", "g", "/", "b", ".", "j", "p", "g">>), ContentType(JPEG), <<>>))

\* a read that takes a stored variant for the original when there is one
GetObjectAnyVariant(objects, key) ==
    LET variants == {k \in DOMAIN objects : SubSeq(k, 1, 7) = RESIZE \o <<"/">>}
    IN  IF variants = {} THEN objects[key].Body
        ELSE objects[CHOOSE k \in variants : TRUE].Body

\* the bytes of s3Client.send(new GetObjectCommand({Bucket, Key})) and
\* Body.transformToByteArray()
GetObject(objects, key) == objects[key].Body

\* the bucket once the PutObject command has been carried out
PutObject(objects, command) ==
    [k \in DOMAIN objects \cup {command.Key} |->
        IF k = command.Key
        THEN S3Object(command.Body, command.ContentType, command.CacheControl)
        ELSE objects[k]]

\* an invocation that has not started
Invoked(cfEvent) ==
    [pc       |-> "start",  \* start, get, done
     event    |-> cfEvent,
     client   |-> 0,        \* the S3 client the invocation works with
     fresh    |-> FALSE,    \* whether the invocation created that client
     locals   |-> <<>>,     \* <<key, width, height, sharpFormat, originKey>> across the awaits
     reads    |-> <<>>,     \* the keys of the GetObject commands sent
     outcome  |-> <<>>,     \* <<how GetObject and sharp went>>
     puts     |-> <<>>,     \* the PutObject commands sent
     put      |-> "none",   \* the last PutObject: none, pending, stored, failed
     returned |-> <<>>]     \* <<the response returned>>

InitConc ==
    /\ event = Request(<<>>, <<>>, [host |-> HOST])
    /\ pc = "invocations"
    /\ viewerOut = <<>>
    /\ response = <<>>
    /\ s3Client = 0
    /\ reads = <<>>
    /\ writes = <<>>
    /\ originOut = <<>>
    /\ previous = <<>>
    /\ attempt = <<>>
    /\ inv \in [1..NumInvocations -> {Invoked(e) : e \in ConcEvents}]
    /\ store = Originals

\* invocation i from the call of the handler to the await of GetObject, or
\* to the return of the response as it is
OrchStart(i) ==
    /\ inv[i].pc = "start"
    /\ s3Client' = InitS3Client(s3Client)
    /\ LET plan == Validated(inv[i].event.request, inv[i].event.response.status)
       IN  IF plan.pass
           THEN inv' = [inv EXCEPT ![i].pc = "done",
                                   ![i].client = s3Client',
                                   ![i].fresh = (s3Client' # s3Client),
                                   ![i].returned = <<inv[i].event.response>>]
           ELSE inv' = [inv EXCEPT ![i].pc = "get",
                                   ![i].client = s3Client',
                                   ![i].fresh = (s3Client' # s3Client),
                                   ![i].locals = <<plan>>,
                                   ![i].reads = <<plan.originKey>>]
    /\ UNCHANGED <<event, pc, viewerOut, response, reads, writes, originOut, previous,
                   attempt, store>>

\* GetObject answers invocation i, with the object the bucket holds or with
\* an error; the handler runs on to its return
OrchResume(i) ==
    /\ inv[i].pc = "get"
    /\ LET plan == inv[i].locals[1]
       IN  \E outcome \in Outcomes :
              /\ outcome.getOk => plan.originKey \in DOMAIN store
              /\ LET body == IF outcome.getOk THEN GetObject(store, plan.originKey) ELSE <<>>
                     try  == TryBlock(inv[i].event.response, plan, outcome.getOk, body,
                                      outcome.sharpOk)
                 IN  inv' = [inv EXCEPT ![i].pc = PcAfterSend(try.puts),
                                        ![i].outcome = <<outcome>>,
                                        ![i].puts = try.puts,
                                        ![i].put = IF try.puts = <<>> THEN "none" ELSE "pending",
                                        ![i].returned = <<try.returned>>]
    /\ UNCHANGED <<event, pc, viewerOut, response, s3Client, reads, writes, originOut,
                   previous, attempt, store>>

\* the bucket carries out the PutObject of invocation i
PutSucceeds(i) ==
    /\ inv[i].put = "pending"
    /\ store' = PutObject(store, inv[i].puts[Len(inv[i].puts)])
    /\ inv' = [inv EXCEPT ![i].put = "stored"]
    /\ UNCHANGED <<event, pc, viewerOut, response, s3Client, reads, writes, originOut,
                   previous, attempt>>

\* the PutObject of invocation i is rejected
PutFails(i) ==
    /\ inv[i].put = "pending"
    /\ LET again == OnPutError(inv[i].puts[Len(inv[i].puts)])
       IN  inv' = [inv EXCEPT ![i].puts = @ \o again,
                              ![i].put = IF again = <<>> THEN "failed" ELSE "pending"]
    /\ UNCHANGED <<event, pc, viewerOut, response, s3Client, reads, writes, originOut,
                   previous, attempt, store>>

NextConc ==
    \E i \in 1..NumInvocations :
        OrchStart(i) \/ OrchResume(i) \/ PutSucceeds(i) \/ PutFails(i)

SpecConc == InitConc /\ [][NextConc]_vars

(***************************************************************************)
(* Requests through the distribution against the bucket: the origin is     *)
(* asked for the object under the origin path, and the origin-response     *)
(* function runs on its answer                                             *)
(***************************************************************************)
\* origin_path of the S3 origin of the distribution
ORIGIN_PATH == <<"/", "o", "r", "i", "g", "i", "n">>

\* the key the distribution asks the bucket for: the origin path, then the
\* URI of the request, without the leading slash
OriginObjectKey(uri) == Substring(ORIGIN_PATH \o uri, 1)

\* the response of the bucket to GetObject of key: the object with its
\* content type, or not found (403 when the key may not be listed)
OriginAnswers(objects, key) ==
    IF key \in DOMAIN objects
    THEN {[status |-> "200", statusDescription |-> "OK",
           headers |-> ("content-type" :>
                           <<[key |-> "Content-Type", value |-> objects[key].ContentType]>>)]}
    ELSE {[status |-> status, statusDescription |-> "", headers |-> ResponseHeaders] :
             status \in {"404", "403"}}

\* the viewer requests: an original at a size in bounds and out of bounds,
\* the original itself, and an original that does not exist
HitRequests ==
    {Request(<<"/", "a", "/", "b", ".", "j", "p", "g">>, <<"d", "=", "1", "x", "1">>, [host |-> HOST]),
     Request(<<"/", "a", "/", "b", ".", "j", "p", "g">>, <<"d", "=", "4", "0", "0", "1", "x", "1">>, [host |-> HOST]),
     Request(<<"/", "a", "/", "b", ".", "j", "p", "g">>, <<>>, [host |-> HOST]),
     Request(<<"/", "c", "/", "b", ".", "j", "p", "g">>, <<"d", "=", "1", "x", "1">>, [host |-> HOST])}

\* a request the viewer-request function has returned, on its way to the
\* origin; seen: the keys the bucket held when the origin was asked
Forwarded(viewerRequest) ==
    [pc       |-> "lookup",
     event    |-> [request  |-> ViewerRequestHandler(viewerRequest).request,
                   response |-> [status |-> "", statusDescription |-> "", headers |-> <<>>]],
     seen     |-> {},
     client   |-> 0,
     fresh    |-> FALSE,
     locals   |-> <<>>,
     reads    |-> <<>>,
     outcome  |-> <<>>,
     puts     |-> <<>>,
     put      |-> "none",
     returned |-> <<>>]

InitHit ==
    /\ event = Request(<<>>, <<>>, [host |-> HOST])
    /\ pc = "invocations"
    /\ viewerOut = <<>>
    /\ response = <<>>
    /\ s3Client = 0
    /\ reads = <<>>
    /\ writes = <<>>
    /\ originOut = <<>>
    /\ previous = <<>>
    /\ attempt = <<>>
    /\ inv \in [1..NumInvocations -> {Forwarded(r) : r \in HitRequests}]
    /\ store = Originals

\* the distribution asks the bucket for request i and hands the answer to
\* the origin-response function
CdnLookup(i) ==
    /\ inv[i].pc = "lookup"
    /\ \E answer \in OriginAnswers(store, OriginObjectKey(inv[i].event.request.uri)) :
          inv' = [inv EXCEPT ![i].pc = "start",
                             ![i].event.response = answer,
                             ![i].seen = DOMAIN store]
    /\ UNCHANGED <<event, pc, viewerOut, response, s3Client, reads, writes, originOut,
                   previous, attempt, store>>

NextHit ==
    \E i \in 1..NumInvocations :
        CdnLookup(i) \/ OrchStart(i) \/ OrchResume(i) \/ PutSucceeds(i) \/ PutFails(i)

SpecHit == InitHit /\ [][NextHit]_vars

(***************************************************************************)
(* The vocabulary of the properties, stated from the documented grammar    *)
(* /{subpath}/{filename}.{extension} and d={width}x{height}                *)
(***************************************************************************)
\* the trailing path segment of uri
TrailingSegment(uri) == SubSeq(uri, Max(Positions(uri, "/")) + 1, Len(uri))

\* uri is /{subpath}/{filename}.{extension}: a directory part that is not
\* empty, and a trailing segment cut at its last dot into two parts that are
\* not empty
WellFormedUri(uri) ==
    /\ Len(uri) > 0 /\ uri[1] = "/"
    /\ Max(Positions(uri, "/")) >= 3
    /\ LET trailing == TrailingSegment(uri)
           dots     == Positions(trailing, ".")
       IN  dots # {} /\ Max(dots) > 1 /\ Max(dots) < Len(trailing)

FormSubpath(uri) == SubSeq(uri, 2, Max(Positions(uri, "/")) - 1)
FormFilename(uri) ==
    LET trailing == TrailingSegment(uri)
    IN  SubSeq(trailing, 1, Max(Positions(trailing, ".")) - 1)
FormExtension(uri) ==
    LET trailing == TrailingSegment(uri)
    IN  SubSeq(trailing, Max(Positions(trailing, ".")) + 1, Len(trailing))

\* the query string has a d parameter
HasD(querystring) == ParamsHas(URLSearchParams(querystring), D)
\* the parts of the value of the d parameter, cut at each x
DParts(querystring) == Split(ParamsGet(URLSearchParams(querystring), D).value, X)

\* the first value of the Accept header contains webp
AcceptsWebp(headers) ==
    /\ ACCEPT \in DOMAIN headers
    /\ Len(headers[ACCEPT]) > 0
    /\ Includes(headers[ACCEPT][1].value, WEBP)

\* the viewer-request handler has returned a request
ViewerReturned == viewerOut # <<>> /\ ~viewerOut[1].threw
\* the request it returned
Out == viewerOut[1].request
\* the handler has returned the request with another URI
Rewritten == ViewerReturned /\ Out.uri # event.uri

\* /resize/{subpath}/{dim0}x{dim1}/{format}/{filename}.{extension}
DerivedUri(subpath, dim0, dim1, format, filename, extension) ==
    Concat(<<<<"/">>, RESIZE, <<"/">>, subpath, <<"/">>, dim0, <<X>>, dim1, <<"/">>,
             format, <<"/">>, filename, <<".">>, extension>>)

\* s begins with pre / ends with suf
StartsWith(s, pre) == Len(s) >= Len(pre) /\ SubSeq(s, 1, Len(pre)) = pre
EndsWith(s, suf) == Len(s) >= Len(suf) /\ SubSeq(s, Len(s) - Len(suf) + 1, Len(s)) = suf

(***************************************************************************)
(* Properties of the viewer-request handler                                *)
(***************************************************************************)
\* C1: a request whose d parameter splits on x into exactly two parts and
\* whose URI is /{subpath}/{filename}.{extension} is returned with the URI
\* /resize/{subpath}/{dim0}x{dim1}/{format}/{filename}.{extension}, the parts
\* copied verbatim and the format being webp or the extension.
C1_RewriteShape ==
    (/\ viewerOut # <<>>
     /\ HasD(event.querystring)
     /\ Len(DParts(event.querystring)) = 2
     /\ WellFormedUri(event.uri))
    => /\ ViewerReturned
       /\ \E format \in {WEBP, FormExtension(event.uri)} :
             Out.uri = DerivedUri(FormSubpath(event.uri),
                                  DParts(event.querystring)[1],
                                  DParts(event.querystring)[2],
                                  format,
                                  FormFilename(event.uri),
                                  FormExtension(event.uri))

\* the documented scenario: /blog/posts/cover.jpg with d=300x300 and a client
\* accepting webp has become /resize/blog/posts/300x300/webp/cover.jpg
C1_Witness ==
    /\ viewerOut # <<>>
    /\ event.uri = <<"/", "b", "l", "o", "g", "/", "p", "o", "s", "t", "s", "/", "c", "o", "v", "e", "r", ".", "j", "p", "g">>
    /\ event.querystring = <<"d", "=", "3", "0", "0", "x", "3", "0", "0">>
    /\ AcceptsWebp(event.headers)
    /\ Out.uri = <<"/", "r", "e", "s", "i", "z", "e", "/", "b", "l", "o", "g", "/", "p", "o", "s", "t", "s", "/", "3", "0", "0", "x", "3", "0", "0", "/", "w", "e", "b", "p", "/", "c", "o", "v", "e", "r", ".", "j", "p", "g">>

\* the text between the parts of the rewritten URI that precede and follow
\* the format
FormatSegment ==
    LET m   == UriMatch(event.uri)
        pre == Concat(<<<<"/">>, RESIZE, <<"/">>, m.path, <<"/">>,
                        DParts(event.querystring)[1], <<X>>,
                        DParts(event.querystring)[2], <<"/">>>>)
        suf == Concat(<<<<"/">>, m.filename, <<".">>, m.extension>>)
    IN  [found |-> StartsWith(Out.uri, pre) /\ EndsWith(Out.uri, suf)
                    /\ Len(Out.uri) > Len(pre) + Len(suf),
         value |-> SubSeq(Out.uri, Len(pre) + 1, Len(Out.uri) - Len(suf))]

\* C2 as stated: in every rewritten URI the format segment is webp if and
\* only if the Accept header value contains webp, and otherwise it is the
\* extension of the request path.
C2_FormatIffAccept ==
    Rewritten =>
        /\ FormatSegment.found
        /\ (FormatSegment.value = WEBP) <=> AcceptsWebp(event.headers)
        /\ ~AcceptsWebp(event.headers) => FormatSegment.value = UriMatch(event.uri).extension

\* C2 amended: in every rewritten URI the format segment is webp if the
\* first value of the Accept header contains webp, and otherwise it is the
\* extension of the request path, which may itself be webp.
C2_FormatNegotiated ==
    Rewritten =>
        /\ FormatSegment.found
        /\ FormatSegment.value =
              IF AcceptsWebp(event.headers) THEN WEBP ELSE UriMatch(event.uri).extension

\* the documented scenario: /image/test.png with d=200x200 and a client not
\* accepting webp has become /resize/image/200x200/png/test.png
C2_Witness ==
    /\ Rewritten
    /\ event.uri = <<"/", "i", "m", "a", "g", "e", "/", "t", "e", "s", "t", ".", "p", "n", "g">>
    /\ event.querystring = <<"d", "=", "2", "0", "0", "x", "2", "0", "0">>
    /\ ~AcceptsWebp(event.headers)
    /\ Out.uri = <<"/", "r", "e", "s", "i", "z", "e", "/", "i", "m", "a", "g", "e", "/", "2", "0", "0", "x", "2", "0", "0", "/", "p", "n", "g", "/", "t", "e", "s", "t", ".", "p", "n", "g">>

\* C3: a request whose query string has no d parameter is returned equal to
\* the request that arrived, whatever its path and Accept header.
C3_NoDPassThrough ==
    (viewerOut # <<>> /\ ~HasD(event.querystring))
    => (ViewerReturned /\ Out = event)

\* the documented scenario: /image/test.png without a query string and with
\* a client accepting webp is returned as it arrived
C3_Witness ==
    /\ ViewerReturned
    /\ event.uri = <<"/", "i", "m", "a", "g", "e", "/", "t", "e", "s", "t", ".", "p", "n", "g">>
    /\ event.querystring = <<>>
    /\ AcceptsWebp(event.headers)
    /\ Out = event

\* C4: a request whose d value, cut at each x, does not give exactly two
\* parts that are not empty is returned equal to the request that arrived.
C4_MalformedDPassThrough ==
    (/\ viewerOut # <<>>
     /\ HasD(event.querystring)
     /\ ~(/\ Len(DParts(event.querystring)) = 2
          /\ DParts(event.querystring)[1] # <<>>
          /\ DParts(event.querystring)[2] # <<>>))
    => (ViewerReturned /\ Out = event)

\* C5: a request with a d parameter whose URI is not
\* /{subpath}/{filename}.{extension} is returned equal to the request that
\* arrived.
C5_MalformedUriPassThrough ==
    (/\ viewerOut # <<>>
     /\ HasD(event.querystring)
     /\ ~WellFormedUri(event.uri))
    => (ViewerReturned /\ Out = event)

\* C6: a rewritten request differs from the request that arrived in its uri
\* only: the query string and every header are the same.
C6_OnlyUriChanges ==
    Rewritten =>
        /\ Out.querystring = event.querystring
        /\ Out.headers = event.headers
        /\ [Out EXCEPT !.uri = event.uri] = event

\* /a/b.jpg with d=1x1 and an Accept header has been rewritten, and the
\* returned request still carries d=1x1
C6_Witness ==
    /\ Rewritten
    /\ event.uri = <<"/", "a", "/", "b", ".", "j", "p", "g">>
    /\ event.querystring = <<"d", "=", "1", "x", "1">>
    /\ ACCEPT \in DOMAIN event.headers
    /\ Out.querystring = <<"d", "=", "1", "x", "1">>

\* C7: for every request with a string uri, a string query string and a
\* header map, with or without an accept entry and also with an accept entry
\* whose list of values is empty, the handler returns a request and raises
\* nothing.
C7_Total == viewerOut # <<>> => (~viewerOut[1].threw /\ pc # "failed")

\* a request whose accept entry has no value has been rewritten
C7_Witness ==
    /\ Rewritten
    /\ ACCEPT \in DOMAIN event.headers
    /\ event.headers[ACCEPT] = <<>>

(***************************************************************************)
(* Properties of the two handlers together                                 *)
(***************************************************************************)
\* the format the negotiation gives a request
Negotiated(request) ==
    IF AcceptsWebp(request.headers) THEN WEBP ELSE FormExtension(request.uri)

\* the d parameter is {width}x{height} in decimal digits, both in
\* [1, MAX_DIMENSION]
DimensionsInRange(querystring) ==
    /\ HasD(querystring)
    /\ Len(DParts(querystring)) = 2
    /\ \A i \in 1..2 :
          /\ AllDigits(DParts(querystring)[i])
          /\ ParseInt(DParts(querystring)[i]) \in 1..MAX_DIMENSION

\* C8: for an original path /{subpath}/{filename}.{extension}, a width and a
\* height in [1, 4000] in decimal digits and either format, the origin-response
\* handler parses the rewritten URI without its leading slash into the same
\* subpath, width, height, format and filename, fetches the key `origin`
\* followed by the original URI, and writes to the rewritten URI without its
\* leading slash.
C8_KeyAgreement ==
    (/\ viewerOut # <<>>
     /\ WellFormedUri(event.uri)
     /\ DimensionsInRange(event.querystring))
    => /\ Rewritten
       /\ LET key == Substring(Out.uri, 1)
              m   == KeyMatch(key)
          IN  /\ ~m.isNull
              /\ m.subpath = FormSubpath(event.uri)
              /\ ParseInt(m.widthStr) = ParseInt(DParts(event.querystring)[1])
              /\ ParseInt(m.heightStr) = ParseInt(DParts(event.querystring)[2])
              /\ m.format = Negotiated(event)
              /\ m.filename = FormFilename(event.uri) \o <<".">> \o FormExtension(event.uri)
              /\ (pc = "done" /\ response[1].status \in {"404", "403"})
                    => /\ reads = <<ORIGIN \o event.uri>>
                       /\ \A i \in 1..Len(writes) : writes[i].Key = key
                       /\ originOut[1].status = "200" => Len(writes) = 1

\* /a/10x10/png/c/b.jpg, whose directory looks like a dimension, a format and
\* a file, with d=1x1: the original has been fetched and the resized image
\* written
C8_Witness ==
    /\ pc = "done"
    /\ event.uri = <<"/", "a", "/", "1", "0", "x", "1", "0", "/", "p", "n", "g", "/", "c", "/", "b", ".", "j", "p", "g">>
    /\ event.querystring = <<"d", "=", "1", "x", "1">>
    /\ reads = <<<<"o", "r", "i", "g", "i", "n", "/", "a", "/", "1", "0", "x", "1", "0", "/", "p", "n", "g", "/", "c", "/", "b", ".", "j", "p", "g">>>>
    /\ Len(writes) = 1
    /\ originOut[1].status = "200"

\* both requests of the pair have been rewritten
BothRewritten ==
    /\ previous # <<>>
    /\ ~previous[1].out.threw
    /\ previous[1].out.request.uri # previous[1].event.uri
    /\ Rewritten

\* C9: two rewritten requests that differ in the original path, in the width
\* or height given by d, or in the negotiated format never have the same
\* rewritten URI.
C9_Injective ==
    (/\ BothRewritten
     /\ \/ previous[1].event.uri # event.uri
        \/ DParts(previous[1].event.querystring) # DParts(event.querystring)
        \/ Negotiated(previous[1].event) # Negotiated(event))
    => previous[1].out.request.uri # Out.uri

\* C10: two requests with the same original path, the same integer width and
\* height and the same negotiated format are rewritten to the same URI,
\* whatever the text of the d value.
C10_CacheKeyStable ==
    (/\ BothRewritten
     /\ previous[1].event.uri = event.uri
     /\ Negotiated(previous[1].event) = Negotiated(event)
     /\ Len(DParts(previous[1].event.querystring)) = 2
     /\ Len(DParts(event.querystring)) = 2
     /\ \A i \in 1..2 :
           /\ AllDigits(DParts(previous[1].event.querystring)[i])
           /\ AllDigits(DParts(event.querystring)[i])
           /\ ParseInt(DParts(previous[1].event.querystring)[i])
                 = ParseInt(DParts(event.querystring)[i]))
    => previous[1].out.request.uri = Out.uri

(***************************************************************************)
(* Properties of the origin-response handler                               *)
(***************************************************************************)
\* the key of the request the origin answered: its URI without the slash
RequestKey == Substring(Out.uri, 1)

RECURSIVE Join(_)
\* the segments put together again with slashes
Join(segments) ==
    IF Len(segments) = 0 THEN <<>>
    ELSE IF Len(segments) = 1 THEN segments[1]
    ELSE segments[1] \o <<"/">> \o Join(Tail(segments))

\* segment is {width}x{height}, both sequences of decimal digits
IsDimensionSegment(segment) ==
    /\ Len(Split(segment, X)) = 2
    /\ AllDigits(Split(segment, X)[1])
    /\ AllDigits(Split(segment, X)[2])

\* key is resize/{subpath}/{width}x{height}/{format}/{filename}: some segment
\* after a subpath that is not empty is a dimension, the segment after it is
\* the format, and a filename that is not empty follows
DerivedKeyShape(key) ==
    LET segments == Split(key, "/")
        n        == Len(segments)
    IN  /\ n >= 5
        /\ segments[1] = RESIZE
        /\ \E i \in 3..(n - 2) :
              /\ Join(SubSeq(segments, 2, i - 1)) # <<>>
              /\ IsDimensionSegment(segments[i])
              /\ segments[i + 1] # <<>>
              /\ Join(SubSeq(segments, i + 2, n)) # <<>>

\* the handler has returned the response of the origin and sent nothing to
\* the object store
PassedThrough == originOut = response /\ reads = <<>> /\ writes = <<>>

\* the key is a derived key whose width and height, as the handler reads
\* them, are in [1, MAX_DIMENSION]
InBounds(key) ==
    /\ ~KeyMatch(key).isNull
    /\ ParseInt(KeyMatch(key).widthStr) \in 1..MAX_DIMENSION
    /\ ParseInt(KeyMatch(key).heightStr) \in 1..MAX_DIMENSION

\* C11: when the status of the response is neither 404 nor 403 the handler
\* returns the response unchanged and neither reads nor writes the object
\* store; 403 is treated as 404 is: for a derived key in bounds either status
\* leads to the read of the original.
C11_OtherStatusPassThrough ==
    pc = "done" =>
        /\ response[1].status \notin {"404", "403"} => PassedThrough
        /\ (response[1].status \in {"404", "403"} /\ InBounds(RequestKey))
              => Len(reads) = 1

\* a derived key in bounds answered with 200 has been passed through
C11_Witness ==
    /\ pc = "done"
    /\ response[1].status = "200"
    /\ Out.uri = <<"/", "r", "e", "s", "i", "z", "e", "/", "b", "l", "o", "g", "/", "3", "0", "0", "x", "3", "0", "0", "/", "w", "e", "b", "p", "/", "c", "o", "v", "e", "r", ".", "j", "p", "g">>
    /\ PassedThrough

\* C12: when the key is not resize/{subpath}/{width}x{height}/{format}/{filename}
\* with width and height sequences of decimal digits, the handler returns
\* the response unchanged and neither reads nor writes the object store.
C12_ShapeMismatchPassThrough ==
    (pc = "done" /\ ~DerivedKeyShape(RequestKey)) => PassedThrough

\* a 404 for resize/a/-1x5/webp/b.jpg has been passed through
C12_Witness ==
    /\ pc = "done"
    /\ response[1].status = "404"
    /\ Out.uri = <<"/", "r", "e", "s", "i", "z", "e", "/", "a", "/", "-", "1", "x", "5", "/", "w", "e", "b", "p", "/", "b", ".", "j", "p", "g">>
    /\ PassedThrough

\* C13: for a 404 or 403 on a derived key whose width or height is 0 or
\* greater than 4000 the handler returns the response unchanged, without a
\* read and without a write; for a width and a height in [1, 4000] the check
\* of the bounds does not reject, and the original is read.
C13_Bounds ==
    (/\ pc = "done"
     /\ response[1].status \in {"404", "403"}
     /\ ~KeyMatch(RequestKey).isNull)
    => LET width  == ParseInt(KeyMatch(RequestKey).widthStr)
           height == ParseInt(KeyMatch(RequestKey).heightStr)
       IN  /\ (width = 0 \/ height = 0 \/ width > 4000 \/ height > 4000) => PassedThrough
           /\ (width \in 1..4000 /\ height \in 1..4000) => Len(reads) = 1

\* the documented scenario: a 404 for resize/blog/5000x5000/webp/cover.jpg
\* has been passed through
C13_Witness ==
    /\ pc = "done"
    /\ response[1].status = "404"
    /\ Out.uri = <<"/", "r", "e", "s", "i", "z", "e", "/", "b", "l", "o", "g", "/", "5", "0", "0", "0", "x", "5", "0", "0", "0", "/", "w", "e", "b", "p", "/", "c", "o", "v", "e", "r", ".", "j", "p", "g">>
    /\ PassedThrough

\* the try block ran and GetObject and sharp both succeeded
Succeeded == attempt # <<>> /\ attempt[1].getOk /\ attempt[1].sharpOk
\* the try block ran and GetObject or sharp failed
Failed == attempt # <<>> /\ ~(attempt[1].getOk /\ attempt[1].sharpOk)

\* the MIME type of the format segment of key, jpg standing for jpeg
MimeOf(key) ==
    LET format == KeyMatch(key).format
    IN  <<"i", "m", "a", "g", "e", "/">> \o (IF format = <<"j", "p", "g">> THEN <<"j", "p", "e", "g">> ELSE format)

\* the original read, resized to the width and the height of key in the
\* format of key
TransformedFor(key) ==
    LET keyMatch == KeyMatch(key)
    IN  [source |-> BodyOf(reads[1]),
         width  |-> ParseInt(keyMatch.widthStr),
         height |-> ParseInt(keyMatch.heightStr),
         format |-> IF keyMatch.format = <<"j", "p", "g">> THEN <<"j", "p", "e", "g">> ELSE keyMatch.format]

\* C15: when the read of the original fails or the transformation fails, the
\* handler returns the response of the origin unchanged and writes nothing;
\* the read is not tried again: one read was sent, no more.
C15_FailurePassThrough ==
    (pc = "done" /\ Failed) => /\ originOut = response
                               /\ writes = <<>>
                               /\ Len(reads) = 1

\* the original was read and sharp failed on it
C15_Witness ==
    /\ pc = "done"
    /\ attempt # <<>> /\ attempt[1].getOk /\ ~attempt[1].sharpOk
    /\ originOut = response
    /\ writes = <<>>

\* response is a synthesized image response
IsImageResponse(resp) ==
    /\ resp.status = "200"
    /\ "body" \in DOMAIN resp
    /\ "bodyEncoding" \in DOMAIN resp

\* C16: the handler always returns, and what it returns is exactly one of a
\* synthesized 200 image response and the response of the origin as it was;
\* no other status is produced.
C16_TwoOutcomes ==
    pc = "done" =>
        /\ Len(originOut) = 1
        /\ IsImageResponse(originOut[1]) # (originOut[1] = response[1])
        /\ originOut[1].status \in {"200", response[1].status}

\* GetObject failed and the handler returned the response of the origin
C16_Witness ==
    /\ pc = "done"
    /\ attempt # <<>> /\ ~attempt[1].getOk
    /\ Len(reads) = 1
    /\ originOut[1] = response[1]

\* C17: on success the handler returns status 200, a body that is the base64
\* of the transformed bytes, bodyEncoding base64, and the headers of the
\* response of the origin with content-type set to the MIME type of the
\* mapped format, every other header kept.
C17_SuccessResponse ==
    (pc = "done" /\ Succeeded) =>
        LET out == originOut[1]
        IN  /\ out.status = "200"
            /\ out.body = [base64 |-> TransformedFor(RequestKey)]
            /\ out.bodyEncoding = "base64"
            /\ DOMAIN out.headers = DOMAIN response[1].headers \cup {"content-type"}
            /\ out.headers["content-type"] = <<[key |-> "Content-Type", value |-> MimeOf(RequestKey)]>>
            /\ \A h \in DOMAIN response[1].headers \ {"content-type"} :
                  out.headers[h] = response[1].headers[h]

\* a jpg key served as image/jpeg, the ETag of the origin kept
C17_Witness ==
    /\ pc = "done"
    /\ Succeeded
    /\ Out.uri = <<"/", "r", "e", "s", "i", "z", "e", "/", "a", "/", "1", "x", "1", "/", "j", "p", "g", "/", "b", ".", "j", "p", "g">>
    /\ originOut[1].headers["content-type"][1].value = <<"i", "m", "a", "g", "e", "/", "j", "p", "e", "g">>
    /\ originOut[1].headers.etag = response[1].headers.etag

\* C18: on success the handler sends exactly one write: its key is the key of
\* the request byte for byte, its body the transformed bytes, the bytes of
\* the response, its cache-control max-age=86400 and its content type the
\* MIME type of the mapped format.
C18_SuccessWrite ==
    (pc = "done" /\ Succeeded) =>
        /\ Len(writes) = 1
        /\ writes[1].Key = RequestKey
        /\ writes[1].Body = TransformedFor(RequestKey)
        /\ originOut[1].body = [base64 |-> writes[1].Body]
        /\ writes[1].CacheControl = <<"m", "a", "x", "-", "a", "g", "e", "=", "8", "6", "4", "0", "0">>
        /\ writes[1].ContentType = MimeOf(RequestKey)

\* the documented scenario, answered with 403: the variant is written at
\* resize/blog/300x300/webp/cover.jpg
C18_Witness ==
    /\ pc = "done"
    /\ Succeeded
    /\ response[1].status = "403"
    /\ Len(writes) = 1
    /\ writes[1].Key = <<"r", "e", "s", "i", "z", "e", "/", "b", "l", "o", "g", "/", "3", "0", "0", "x", "3", "0", "0", "/", "w", "e", "b", "p", "/", "c", "o", "v", "e", "r", ".", "j", "p", "g">>

(***************************************************************************)
(* Properties of the bucket under invocations side by side                 *)
(***************************************************************************)
Invocations == 1..NumInvocations

\* key is resize/{subpath}/{width}x{height}/{format}/{filename} for a width
\* and a height in [1, 4000]
DerivedKeyInBounds(key) ==
    LET segments == Split(key, "/")
        n        == Len(segments)
    IN  /\ n >= 5
        /\ segments[1] = RESIZE
        /\ \E i \in 3..(n - 2) :
              /\ Join(SubSeq(segments, 2, i - 1)) # <<>>
              /\ IsDimensionSegment(segments[i])
              /\ ParseInt(Split(segments[i], X)[1]) \in 1..4000
              /\ ParseInt(Split(segments[i], X)[2]) \in 1..4000
              /\ segments[i + 1] # <<>>
              /\ Join(SubSeq(segments, i + 2, n)) # <<>>

\* C14: whatever the invocations and their order, every object the bucket
\* holds is an original as it was uploaded or lies at a key
\* resize/{subpath}/{width}x{height}/{format}/{filename} with width and
\* height in [1, 4000]; so does every write on its way.
C14_StoreInvariant ==
    /\ \A k \in DOMAIN store :
          \/ k \in DOMAIN Originals /\ store[k] = Originals[k]
          \/ DerivedKeyInBounds(k)
    /\ \A i \in Invocations : \A n \in 1..Len(inv[i].puts) :
          DerivedKeyInBounds(inv[i].puts[n].Key)

\* the variant of an original whose directory holds 5000x5000 has been
\* stored at 1x1
C14_Witness ==
    /\ <<"r", "e", "s", "i", "z", "e", "/", "a", "/", "5", "0", "0", "0", "x", "5", "0", "0", "0", "/", "p", "n", "g", "/", "1", "x", "1", "/", "j", "p", "g", "/", "b", ".", "j", "p", "g">> \in DOMAIN store
    /\ \E i \in Invocations : inv[i].put = "stored"

\* invocation i has resized its original
Resized200(i) ==
    /\ inv[i].pc = "done"
    /\ inv[i].outcome # <<>>
    /\ inv[i].outcome[1].getOk /\ inv[i].outcome[1].sharpOk

\* C19: the response does not depend on the write: an invocation that has
\* resized returns the 200 response with the bytes it sends to the bucket,
\* the same for the same event whether the write is pending, stored or
\* failed; and no invocation sends a second write.
C19_WriteOutcomeIrrelevant ==
    \A i \in Invocations :
        /\ Len(inv[i].puts) <= 1
        /\ Resized200(i) =>
              /\ inv[i].put \in {"pending", "stored", "failed"}
              /\ Len(inv[i].puts) = 1
              /\ inv[i].returned[1].status = "200"
              /\ inv[i].returned[1].body = [base64 |-> inv[i].puts[1].Body]
              /\ \A j \in Invocations :
                    (Resized200(j) /\ inv[j].event = inv[i].event)
                        => inv[j].returned = inv[i].returned

\* two invocations on the same event, the write of one stored, the write of
\* the other failed
C19_Witness ==
    \E i, j \in Invocations :
        /\ inv[i].event = inv[j].event
        /\ Resized200(i) /\ Resized200(j)
        /\ inv[i].put = "stored"
        /\ inv[j].put = "failed"
        /\ inv[i].returned = inv[j].returned

\* C20: no original is written: every write targets a key under resize/ and
\* none a key under origin/, every read targets a key under origin/, and the
\* originals stay in the bucket as they were uploaded.
C20_OriginalsReadOnly ==
    /\ \A i \in Invocations :
          /\ \A n \in 1..Len(inv[i].puts) :
                /\ StartsWith(inv[i].puts[n].Key, <<"r", "e", "s", "i", "z", "e", "/">>)
                /\ ~StartsWith(inv[i].puts[n].Key, <<"o", "r", "i", "g", "i", "n", "/">>)
          /\ \A n \in 1..Len(inv[i].reads) :
                StartsWith(inv[i].reads[n], <<"o", "r", "i", "g", "i", "n", "/">>)
    /\ \A k \in DOMAIN Originals : k \in DOMAIN store /\ store[k] = Originals[k]
    /\ \A k \in DOMAIN store \ DOMAIN Originals : StartsWith(k, <<"r", "e", "s", "i", "z", "e", "/">>)

\* a 403 led to the read of origin/a/b.jpg and to the variant stored at
\* resize/a/1x1/jpg/b.jpg
C20_Witness ==
    \E i \in Invocations :
        /\ inv[i].event.response.status = "403"
        /\ inv[i].reads = <<<<"o", "r", "i", "g", "i", "n", "/", "a", "/", "b", ".", "j", "p", "g">>>>
        /\ inv[i].put = "stored"
        /\ inv[i].puts[1].Key = <<"r", "e", "s", "i", "z", "e", "/", "a", "/", "1", "x", "1", "/", "j", "p", "g", "/", "b", ".", "j", "p", "g">>
        /\ <<"r", "e", "s", "i", "z", "e", "/", "a", "/", "1", "x", "1", "/", "j", "p", "g", "/", "b", ".", "j", "p", "g">> \in DOMAIN store

(***************************************************************************)
(* Properties of the distribution, the bucket and the function together    *)
(***************************************************************************)
\* when the origin was asked for request j, the bucket held the derived
\* object of its URI
DerivedObjectSeen(j) ==
    /\ inv[j].pc # "lookup"
    /\ Substring(inv[j].event.request.uri, 1) \in inv[j].seen
    /\ StartsWith(inv[j].event.request.uri, <<"/", "r", "e", "s", "i", "z", "e", "/">>)

\* C21: once the write of a derived object has been carried out, a later
\* request for the same rewritten URI is answered by the lookup of the
\* distribution in the bucket: the function does not see a 404 or a 403 for
\* that key again, and resizes and writes no second time.
C21_HitPath ==
    \A j \in Invocations :
        DerivedObjectSeen(j) =>
            /\ inv[j].event.response.status \notin {"404", "403"}
            /\ inv[j].reads = <<>>
            /\ inv[j].puts = <<>>

(***************************************************************************)
(* Properties of repeated and concurrent invocations                       *)
(***************************************************************************)
\* C22: two invocations with the same event, on the same original, return
\* the same response when the read and the transform go the same way, and
\* when both resize each sends its write to the same key with the same
\* bytes.
C22_Idempotent ==
    \A i, j \in Invocations :
        (/\ inv[i].pc = "done" /\ inv[j].pc = "done"
         /\ inv[i].event = inv[j].event
         /\ inv[i].outcome = inv[j].outcome)
        => /\ inv[i].returned = inv[j].returned
           /\ inv[i].reads = inv[j].reads
           /\ (Resized200(i) /\ Resized200(j))
                 => /\ Len(inv[i].puts) = 1 /\ Len(inv[j].puts) = 1
                    /\ inv[i].puts[1].Key = inv[j].puts[1].Key
                    /\ inv[i].puts[1].Body = inv[j].puts[1].Body

\* two invocations on the same event have resized, the second after the
\* write of the first was stored, and both writes are stored
C22_Witness ==
    \E i, j \in Invocations :
        /\ i # j
        /\ inv[i].event = inv[j].event
        /\ Resized200(i) /\ Resized200(j)
        /\ inv[i].put = "stored" /\ inv[j].put = "stored"
        /\ inv[i].puts = inv[j].puts
        /\ inv[i].returned = inv[j].returned

\* C25: every invocation sends at most one read and at most one write; the
\* write is sent only after the read and the transform have succeeded; and
\* the handler has returned as soon as the write is sent, whether the write
\* is still pending or not.
C25_IoOrder ==
    \A i \in Invocations :
        /\ Len(inv[i].reads) <= 1
        /\ Len(inv[i].puts) <= 1
        /\ inv[i].puts # <<>> =>
              /\ Len(inv[i].reads) = 1
              /\ inv[i].outcome # <<>>
              /\ inv[i].outcome[1].getOk /\ inv[i].outcome[1].sharpOk
        /\ inv[i].put # "none" => inv[i].pc = "done" /\ Len(inv[i].returned) = 1
        /\ inv[i].pc = "done" <=> inv[i].returned # <<>>

\* the response has been returned and the write is still pending
C25_Witness ==
    \E i \in Invocations :
        /\ inv[i].pc = "done"
        /\ inv[i].returned[1].status = "200"
        /\ inv[i].reads # <<>>
        /\ inv[i].put = "pending"

\* the positions of the dimension segments at which key can be cut into
\* subpath / {width}x{height} / format / filename: a subpath that is not
\* empty before, a format segment that is not empty next, and a filename
\* that is not empty after it
Cuts(key) ==
    LET segments == Split(key, "/")
    IN  {i \in 3..(Len(segments) - 2) :
            /\ segments[1] = RESIZE
            /\ Join(SubSeq(segments, 2, i - 1)) # <<>>
            /\ IsDimensionSegment(segments[i])
            /\ segments[i + 1] # <<>>
            /\ Join(SubSeq(segments, i + 2, Len(segments))) # <<>>}

\* the transform of the original of key for the width, the height and the
\* format of key, the key cut at its last dimension segment
VariantOf(key) ==
    LET segments == Split(key, "/")
        i        == Max(Cuts(key))
        original == <<"o", "r", "i", "g", "i", "n", "/">> \o Join(SubSeq(segments, 2, i - 1)) \o <<"/">>
                        \o Join(SubSeq(segments, i + 2, Len(segments)))
    IN  [source |-> Originals[original].Body,
         width  |-> ParseInt(Split(segments[i], X)[1]),
         height |-> ParseInt(Split(segments[i], X)[2]),
         format |-> IF segments[i + 1] = <<"j", "p", "g">> THEN <<"j", "p", "e", "g">> ELSE segments[i + 1]]

\* C26: invocations for the same derived key are not held back by each
\* other, each reads, transforms and writes; under every interleaving, with
\* writes overwritten or failed, the object stored at a derived key is the
\* transform of the original for the width, height and format of the key,
\* and so is every write sent.
C26_StoredIsTransform ==
    /\ \A k \in DOMAIN store \ DOMAIN Originals : store[k].Body = VariantOf(k)
    /\ \A i \in Invocations : \A n \in 1..Len(inv[i].puts) :
          inv[i].puts[n].Body = VariantOf(inv[i].puts[n].Key)

\* two invocations for one key have each read and written; the write of one
\* is stored, the write of the other is about to overwrite it
C26_Witness ==
    \E i, j \in Invocations :
        /\ i # j
        /\ inv[i].puts # <<>> /\ inv[j].puts # <<>>
        /\ inv[i].puts[1].Key = inv[j].puts[1].Key
        /\ inv[i].reads = inv[j].reads /\ inv[i].reads # <<>>
        /\ inv[i].put = "stored"
        /\ inv[j].put = "pending"
        /\ store[inv[i].puts[1].Key].Body = VariantOf(inv[i].puts[1].Key)


(***************************************************************************)
(* Further properties of the origin-response handler                       *)
(***************************************************************************)
\* headers has a cache-control entry whose value is max-age=86400
HasCacheDirective(headers) ==
    /\ "cache-control" \in DOMAIN headers
    /\ Len(headers["cache-control"]) = 1
    /\ headers["cache-control"][1].value = <<"m", "a", "x", "-", "a", "g", "e", "=", "8", "6", "4", "0", "0">>

\* C23: every synthesized 200 response and every object written to the
\* bucket carries the cache directive max-age=86400.
C23_CacheDirective ==
    /\ \A k \in DOMAIN store \ DOMAIN Originals :
          store[k].CacheControl = <<"m", "a", "x", "-", "a", "g", "e", "=", "8", "6", "4", "0", "0">>
    /\ \A i \in Invocations :
          Resized200(i) =>
              /\ \A n \in 1..Len(inv[i].puts) :
                    inv[i].puts[n].CacheControl = <<"m", "a", "x", "-", "a", "g", "e", "=", "8", "6", "4", "0", "0">>
              /\ HasCacheDirective(inv[i].returned[1].headers)

\* the response-size ceiling of the platform, in bytes of the encoded body
MaxResponseBytes == 1048576

\* C24: the base64 body of a returned 200 response never exceeds 1 MiB,
\* whatever the original and the dimensions in [1, 4000].
C24_ResponseFits ==
    (pc = "done" /\ Succeeded /\ IsImageResponse(originOut[1]))
        => Base64Length(attempt[1].length) <= MaxResponseBytes

\* the format segment of the key of the request, as the handler cuts it
FormatToken == KeyMatch(RequestKey).format
\* jpg stands for jpeg, every other token for itself
Mapped(token) == IF token = <<"j", "p", "g">> THEN <<"j", "p", "e", "g">> ELSE token

\* C27: the token jpg is mapped to the output format jpeg and every other
\* token to itself; the mapped format is the format of the encoder and of
\* the content type image/{mapped} of the response and of the stored
\* object, while the key written keeps the token as it was.
C27_FormatMapping ==
    (pc = "done" /\ Succeeded) =>
        /\ originOut[1].body.base64.format = Mapped(FormatToken)
        /\ originOut[1].headers["content-type"][1].value = <<"i", "m", "a", "g", "e", "/">> \o Mapped(FormatToken)
        /\ writes[1].ContentType = <<"i", "m", "a", "g", "e", "/">> \o Mapped(FormatToken)
        /\ writes[1].Body.format = Mapped(FormatToken)
        /\ KeyMatch(writes[1].Key).format = FormatToken

\* a request under .../jpg/... is stored under .../jpg/... as image/jpeg
C27_Witness ==
    /\ pc = "done"
    /\ Succeeded
    /\ FormatToken = <<"j", "p", "g">>
    /\ writes[1].Key = <<"r", "e", "s", "i", "z", "e", "/", "a", "/", "1", "x", "1", "/", "j", "p", "g", "/", "b", ".", "j", "p", "g">>
    /\ writes[1].ContentType = <<"i", "m", "a", "g", "e", "/", "j", "p", "e", "g">>
    /\ writes[1].Body.format = <<"j", "p", "e", "g">>

\* C29: in every invocation that has resized, the bytes sent to the bucket
\* are the bytes whose base64 text is the body of the response, and the
\* content type sent with them is the content-type header of the response;
\* the object the bucket holds once the write is stored has these bytes and
\* this content type.
C29_InlineAndStoredAgree ==
    \A i \in Invocations :
        Resized200(i) =>
            /\ Len(inv[i].puts) = 1
            /\ inv[i].returned[1].body = [base64 |-> inv[i].puts[1].Body]
            /\ inv[i].returned[1].headers["content-type"][1].value = inv[i].puts[1].ContentType
            /\ inv[i].put = "stored" =>
                  /\ store[inv[i].puts[1].Key].Body = inv[i].returned[1].body.base64
                  /\ store[inv[i].puts[1].Key].ContentType
                        = inv[i].returned[1].headers["content-type"][1].value

\* a variant has been stored as image/jpeg with the bytes of the response
C29_Witness ==
    \E i \in Invocations :
        /\ Resized200(i)
        /\ inv[i].put = "stored"
        /\ store[inv[i].puts[1].Key].ContentType = <<"i", "m", "a", "g", "e", "/", "j", "p", "e", "g">>
        /\ [base64 |-> store[inv[i].puts[1].Key].Body] = inv[i].returned[1].body

\* the segments of the key of the request
KeySegments == Split(RequestKey, "/")

\* the positions at which the key of the request can be cut
Decompositions == Cuts(RequestKey)

\* the positions of the dimension segments followed by two more segments
FollowedByTwo ==
    {i \in 3..(Len(KeySegments) - 2) :
        KeySegments[1] = RESIZE /\ IsDimensionSegment(KeySegments[i])}

\* what the handler does when it cuts the key at the dimension segment i:
\* it reads origin/{subpath}/{filename} when the dimensions are in bounds and
\* returns the response as it is when they are not
CutAt(i) ==
    LET n      == Len(KeySegments)
        width  == ParseInt(Split(KeySegments[i], X)[1])
        height == ParseInt(Split(KeySegments[i], X)[2])
    IN  IF width \in 1..4000 /\ height \in 1..4000
        THEN reads = <<<<"o", "r", "i", "g", "i", "n", "/">> \o Join(SubSeq(KeySegments, 2, i - 1)) \o <<"/">>
                        \o Join(SubSeq(KeySegments, i + 2, n))>>
        ELSE PassedThrough

\* C28 as stated: of the decompositions of a key that has more than one the
\* handler takes the one with the longest subpath, which is the one at the
\* rightmost dimension segment followed by at least two more segments.
C28_RightmostDimension ==
    (/\ pc = "done"
     /\ response[1].status \in {"404", "403"}
     /\ Cardinality(Decompositions) > 1)
    => /\ CutAt(Max(Decompositions))
       /\ CutAt(Max(FollowedByTwo))

\* C28: of the decompositions of a key that has more than one the handler
\* takes the one with the longest subpath, which is the one at the rightmost
\* dimension segment followed by a format segment that is not empty and a
\* filename that is not empty; the original read is origin/{that
\* subpath}/{the rest as filename}, slashes included.
C28_LongestSubpath ==
    (/\ pc = "done"
     /\ response[1].status \in {"404", "403"}
     /\ Cardinality(Decompositions) > 1)
    => CutAt(Max(Decompositions))

\* resize/a/10x10/webp/20x20/png/c.jpg is cut at 20x20: the original read is
\* origin/a/10x10/webp/c.jpg
C28_Witness ==
    /\ pc = "done"
    /\ RequestKey = <<"r", "e", "s", "i", "z", "e", "/", "a", "/", "1", "0", "x", "1", "0", "/", "w", "e", "b", "p", "/", "2", "0", "x", "2", "0", "/", "p", "n", "g", "/", "c", ".", "j", "p", "g">>
    /\ Cardinality(Decompositions) = 2
    /\ reads = <<<<"o", "r", "i", "g", "i", "n", "/", "a", "/", "1", "0", "x", "1", "0", "/", "w", "e", "b", "p", "/", "c", ".", "j", "p", "g">>>>

(***************************************************************************)
(* Properties of the S3 client of a worker                                 *)
(***************************************************************************)
\* C30: the worker creates its S3 client once, in the first invocation and
\* before the status check, so also in an invocation that passes through;
\* every later invocation works with the same client; and what an
\* invocation returns and writes is the same whether it created the client
\* or found it.
C30_ClientOnce ==
    /\ s3Client \in {0, 1}
    /\ s3Client = 0 <=> \A i \in Invocations : inv[i].pc = "start"
    /\ Cardinality({i \in Invocations : inv[i].fresh}) = s3Client
    /\ \A i \in Invocations : inv[i].pc # "start" => inv[i].client = 1
    /\ \A i, j \in Invocations :
          (/\ inv[i].pc = "done" /\ inv[j].pc = "done"
           /\ inv[i].event = inv[j].event
           /\ inv[i].outcome = inv[j].outcome
           /\ inv[i].fresh /\ ~inv[j].fresh)
          => inv[i].returned = inv[j].returned /\ inv[i].puts = inv[j].puts

\* an invocation that passed a 200 through created the client, and a later
\* invocation resized with it
C30_Witness ==
    \E i, j \in Invocations :
        /\ inv[i].fresh
        /\ inv[i].event.response.status = "200"
        /\ inv[i].returned = <<inv[i].event.response>>
        /\ ~inv[j].fresh
        /\ Resized200(j)
        /\ inv[j].client = inv[i].client

====
